---- MODULE Spec2Model ----
(***************************************************************************)
(* Model of app.py (market dashboard): the earnings resolver               *)
(* fetch_next_earnings_date, the position normalizer parse_positions_csv,  *)
(* the table builder make_earnings_table and the module-level script that  *)
(* builds the timeline.                                                    *)
(*                                                                         *)
(* Time is modelled at day granularity: a timestamp is the number of its   *)
(* day on one common time line.  tz_localize('UTC').tz_convert(tz) (lines  *)
(* 39-40) re-labels an instant without moving it, so the comparison of     *)
(* line 42 compares day numbers whatever the timezone of the index.        *)
(* An optional value (None, NaT) is the empty sequence, a present value d  *)
(* is <<d>>.                                                               *)
(***************************************************************************)
EXTENDS Integers, Sequences, FiniteSets, TLC

VARIABLES
    today,          \* the current day (pd.Timestamp.today().normalize())
    provider,       \* ticker -> what yfinance answers for it
    cache,          \* st.cache_data memo of fetch_next_earnings_date
    pc,             \* position of the running call / script
    result,         \* return value of a direct fetch_next_earnings_date call
    tickers,        \* argument of make_earnings_table / sidebar ticker list
    records,        \* local `records` of make_earnings_table
    e_df,           \* table returned by make_earnings_table
    raw,            \* DataFrame handed to parse_positions_csv
    out1,           \* outcome of parse_positions_csv(raw)
    out2,           \* outcome of parse_positions_csv(out1)
    uploaded,       \* st.file_uploader value
    pos_df,         \* script variable pos_df (<<>> is None)
    shown,          \* messages the script has put on the page
    timeline_items  \* script variable timeline_items

vars == <<today, provider, cache, pc, result, tickers, records, e_df,
          raw, out1, out2, uploaded, pos_df, shown, timeline_items>>

(***************************************************************************)
(* Bounds of the model.                                                    *)
(***************************************************************************)
MaxDate == 3
MaxSched == 2

None == <<>>
Some(x) == <<x>>
IsNone(o) == o = <<>>
Val(o) == o[1]

Dates == 1..MaxDate
OptDates == {None} \cup {Some(d) : d \in Dates}

SeqsUpTo(S, n) == UNION {[1..k -> S] : k \in 0..n}

(***************************************************************************)
(* The provider (yfinance), per ticker.                                    *)
(*   cal: tk.calendar.  k = "raise": the access raises; "none": not a      *)
(*        DataFrame; "empty": an empty DataFrame; "nofield": a DataFrame   *)
(*        without an 'Earnings Date' row; "field": a DataFrame whose       *)
(*        'Earnings Date' row starts with dt (None is NaT/NaN).            *)
(*   ed:  tk.earnings_dates.  k = "raise" | "none" | "frame"; a frame has  *)
(*        rows in index order, each with its date and, when the frame has  *)
(*        an "EP" column, its EP cell.                                     *)
(***************************************************************************)
NaN == "<NaN>"
NoCell == "<no column>"
EPValues == {"confirmed", NaN}

Calendars ==
    {[k |-> x, dt |-> None] : x \in {"raise", "none", "empty", "nofield"}}
    \cup {[k |-> "field", dt |-> o] : o \in OptDates}

SchedRows(hasEP) ==
    [date : Dates, EP : IF hasEP THEN EPValues ELSE {NoCell}]

Schedules(n) ==
    {[k |-> x, hasEP |-> FALSE, rows |-> <<>>] : x \in {"raise", "none"}}
    \cup UNION {{[k |-> "frame", hasEP |-> b, rows |-> r] :
                    r \in SeqsUpTo(SchedRows(b), n)} : b \in BOOLEAN}

Responses(n) == [cal : Calendars, ed : Schedules(n)]

(***************************************************************************)
(* fetch_next_earnings_date                                                *)
(***************************************************************************)
Raised == [raised |-> TRUE, dt |-> None, status |-> "<exception>"]
Return(dt, status) == [raised |-> FALSE, dt |-> dt, status |-> status]

\* str(flag), line 46
PyStr(x) == IF x = NaN THEN "nan" ELSE x

\* ed[ed.index >= today], line 42
FutureRows(rows, t) == SelectSeq(rows, LAMBDA r : r.date >= t)

\* future.iloc[0].get("EP", "estimated"), line 45
GetEP(ed, row) == IF ed.hasEP THEN row.EP ELSE "estimated"

\* lines 34-48: the schedule step and the final return
ScheduleStep(ed, t) ==
    IF ed.k = "raise" THEN Raised
    ELSE IF ed.k = "frame" /\ ed.rows # <<>>
         THEN LET future == FutureRows(ed.rows, t) IN
              IF future # <<>>
              THEN Return(Some(future[1].date), PyStr(GetEP(ed, future[1])))
              ELSE Return(None, "unknown")
         ELSE Return(None, "unknown")

\* lines 23-32: the calendar step
CalendarStep(resp, t) ==
    IF resp.cal.k = "raise" THEN Raised
    ELSE IF resp.cal.k = "field"
         THEN IF IsNone(resp.cal.dt)
              THEN Return(None, "unknown")
              ELSE Return(resp.cal.dt, "estimated")
         ELSE ScheduleStep(resp.ed, t)

\* the body of the try block, lines 23-48
FetchBody(resp, t) == CalendarStep(resp, t)

\* the function without its except clause: an exception leaves it
fetch_without_except(resp, t) == FetchBody(resp, t)

\* lines 22-50: try ... except Exception: return None, "error"
fetch_next_earnings_date(resp, t) ==
    LET r == FetchBody(resp, t) IN
    IF r.raised THEN Return(None, "error") ELSE r

(***************************************************************************)
(* DataFrames of positions.                                                *)
(*   columns: the column names; ticker_dtype: the dtype of the ticker      *)
(*   column ("float64" is what pandas gives a column that holds no string, *)
(*   only NaN); rows: the rows in order, each with its index label idx.    *)
(* Cells: a date cell is a string in ISO form ("iso", d), a string in      *)
(* another form dateutil reads ("text", d), the string "abc", the string   *)
(* "nan", NaN, or a datetime.date ("date", d).  A notional cell is a       *)
(* number ("num", v), a string of digits ("numstr", v), the string "abc"   *)
(* or NaN.  Ticker, type, source and notes cells are strings or NaN.       *)
(***************************************************************************)
MaxRows == 2

required == <<"date", "ticker", "notional", "type", "source">>

SeqToSet(s) == {s[i] : i \in 1..Len(s)}

DateCell(k, d) == [k |-> k, d |-> d]
NaNDate == [k |-> "NaN", d |-> 0]
AbsentDate == [k |-> NoCell, d |-> 0]
NumCell(k, v) == [k |-> k, v |-> v]
NaNNum == [k |-> "NaN", v |-> 0]
AbsentNum == [k |-> NoCell, v |-> 0]

\* line 71 without str(): the cell itself goes to the parser
PyStrDate_not_applied(c) == c

\* str(x) of a date cell, line 71
PyStrDate(c) ==
    CASE c.k = "date" -> DateCell("iso", c.d)
      [] c.k = "NaN" -> DateCell("nan", 0)
      [] OTHER -> c

\* whether dateutil's parser reads the string
Parses(s) == s.k \in {"iso", "text"}

\* dtparser.parse(s).date(), line 71, for a string it reads
DtParse(s) == DateCell("date", s.d)

\* Series.str.upper() and Series.str.strip() on one cell, line 72: a cell
\* that is no string becomes NaN
Upper(s) ==
    CASE s = " aapl " -> " AAPL "
      [] s = "aapl" -> "AAPL"
      [] OTHER -> s

Strip(s) ==
    CASE s = " aapl " -> "aapl"
      [] s = " AAPL " -> "AAPL"
      [] OTHER -> s

\* pd.to_numeric(x, errors="coerce") on one cell, line 73
ToNumeric(c) == IF c.k \in {"num", "numstr"} THEN NumCell("num", c.v) ELSE NaNNum

\* astype(str) on one cell, lines 74-75
AsTypeStr(x) == IF x = NaN THEN "nan" ELSE x

Failure(k, missing) == [k |-> k, missing |-> missing, df |-> None]
Ok(df) == [k |-> "ok", missing |-> <<>>, df |-> Some(df)]

\* the column check with "source" left out of the required list
Missing_without_source(df) ==
    SelectSeq(required, LAMBDA c : c \notin df.columns /\ c # "source")

\* lines 65-66
Missing(df) == SelectSeq(required, LAMBDA c : c \notin df.columns)

\* lines 71-77, one row
NormalizeRow(df, r) ==
    [idx |-> r.idx,
     date |-> DtParse(PyStrDate(r.date)),
     ticker |-> Strip(Upper(r.ticker)),
     notional |-> ToNumeric(r.notional),
     type |-> AsTypeStr(r.type),
     source |-> AsTypeStr(r.source),
     notes |-> IF "notes" \in df.columns THEN r.notes ELSE "",
     extra |-> r.extra]

\* the row filter of dropna(subset=["notional", "ticker", "date"]), line 78
KeptByDropna(r) == r.notional.k # "NaN" /\ r.ticker # NaN /\ r.date.k # "NaN"

\* lines 70-79, after the column check
Normalize(df) ==
    IF \E i \in 1..Len(df.rows) : ~Parses(PyStrDate(df.rows[i].date))
    THEN Failure("ParserError", <<>>)
    ELSE IF df.ticker_dtype # "object"
    THEN Failure("AttributeError", <<>>)
    ELSE Ok([columns |-> df.columns \cup {"notes"},
             ticker_dtype |-> "object",
             rows |-> SelectSeq([i \in 1..Len(df.rows) |-> NormalizeRow(df, df.rows[i])],
                                KeptByDropna)])

\* lines 65-79
parse_positions_csv(df) ==
    IF Missing(df) # <<>>
    THEN Failure("ValueError: Missing required columns", Missing(df))
    ELSE Normalize(df)

(***************************************************************************)
(* Inputs of the direct calls.                                             *)
(***************************************************************************)
Idle == "<idle>"

DateCells == {DateCell("iso", 1), DateCell("text", 2), DateCell("abc", 0), NaNDate}
TickerCells == {" aapl ", NaN}
NotionalCells == {NumCell("num", 5000000), NumCell("numstr", 4999999),
                  NumCell("abc", 0)}
TypeCells == {"block_trade", NaN}

RowPool ==
    [date : DateCells, ticker : TickerCells, notional : NotionalCells,
     type : TypeCells, source : {"manual"}, notes : {"dark pool print"},
     extra : {"x"}]

\* a row of a frame with the given columns, at index label i
MkRow(cols, c, i) ==
    [idx |-> i,
     date |-> IF "date" \in cols THEN c.date ELSE AbsentDate,
     ticker |-> IF "ticker" \in cols THEN c.ticker ELSE NoCell,
     notional |-> IF "notional" \in cols THEN c.notional ELSE AbsentNum,
     type |-> IF "type" \in cols THEN c.type ELSE NoCell,
     source |-> IF "source" \in cols THEN c.source ELSE NoCell,
     notes |-> IF "notes" \in cols THEN c.notes ELSE NoCell,
     extra |-> IF "extra" \in cols THEN c.extra ELSE NoCell]

MkRows(cols, cs) == [i \in 1..Len(cs) |-> MkRow(cols, cs[i], i)]

\* the dtypes the ticker column of these rows can have: float64 when there
\* are rows and every ticker cell is NaN
TickerDtypes(cols, rows) ==
    IF "ticker" \in cols /\ rows # <<>> /\ \A i \in 1..Len(rows) : rows[i].ticker = NaN
    THEN {"object", "float64"}
    ELSE {"object"}

OptionalColumnSets == SUBSET {"notes", "extra"}

\* the frame with the given columns, ticker dtype and cell rows
MkFrame(cols, t, cs) ==
    [columns |-> cols, ticker_dtype |-> t, rows |-> MkRows(cols, cs)]

IdleTable ==
    /\ tickers = <<>>
    /\ records = <<>>
    /\ e_df = None

IdleParse ==
    /\ raw = None
    /\ out1 = None
    /\ out2 = None

IdleScript ==
    /\ uploaded = Idle
    /\ pos_df = None
    /\ shown = <<>>
    /\ timeline_items = <<>>

tableVars == <<tickers, records, e_df>>
parseVars == <<raw, out1, out2>>
scriptVars == <<uploaded, pos_df, shown, timeline_items>>
envVars == <<today, provider>>

(***************************************************************************)
(* A direct call of fetch_next_earnings_date("AAPL").                      *)
(***************************************************************************)
\* @st.cache_data, line 11: a ticker already resolved is answered from the memo
Resolve(t) ==
    IF cache[t] # None THEN Val(cache[t])
    ELSE fetch_next_earnings_date(provider[t], today)

InitFetch ==
    /\ today \in Dates
    /\ provider \in [{"AAPL"} -> Responses(MaxSched)]
    /\ cache = [t \in {"AAPL"} |-> None]
    /\ pc = "fetch"
    /\ result = None
    /\ IdleTable /\ IdleParse /\ IdleScript

CallFetch ==
    /\ pc = "fetch"
    /\ LET r == Resolve("AAPL") IN
       /\ result' = Some(r)
       /\ cache' = IF r.raised THEN cache ELSE [cache EXCEPT !["AAPL"] = Some(r)]
       /\ pc' = IF r.raised THEN "fetch_raised" ELSE "fetch_returned"
    /\ UNCHANGED <<envVars, tableVars, parseVars, scriptVars>>

NextFetch == CallFetch

SpecFetch == InitFetch /\ [][NextFetch]_vars

(***************************************************************************)
(* parse_positions_csv(raw), then parse_positions_csv of what it returned. *)
(***************************************************************************)
InitParse ==
    /\ \E c \in SUBSET SeqToSet(required), x \in OptionalColumnSets :
         \E k \in 0..(IF c = SeqToSet(required) THEN MaxRows ELSE 1) :
            \E cs \in [1..k -> RowPool] :
               \E t \in TickerDtypes(c \cup x, MkRows(c \cup x, cs)) :
                  raw = Some(MkFrame(c \cup x, t, cs))
    /\ out1 = None
    /\ out2 = None
    /\ pc = "parse"
    /\ today = 1
    /\ provider = <<>>
    /\ cache = <<>>
    /\ result = None
    /\ IdleTable /\ IdleScript

ParseFirst ==
    /\ pc = "parse"
    /\ LET o == parse_positions_csv(Val(raw)) IN
       /\ out1' = Some(o)
       /\ pc' = IF o.k = "ok" THEN "parse_again" ELSE "parse_raised"
    /\ UNCHANGED <<envVars, cache, result, tableVars, raw, out2, scriptVars>>

ParseAgain ==
    /\ pc = "parse_again"
    /\ LET o == parse_positions_csv(Val(Val(out1).df)) IN
       /\ out2' = Some(o)
       /\ pc' = IF o.k = "ok" THEN "parsed_twice" ELSE "parse_again_raised"
    /\ UNCHANGED <<envVars, cache, result, tableVars, raw, out1, scriptVars>>

NextParse == ParseFirst \/ ParseAgain

SpecParse == InitParse /\ [][NextParse]_vars

(***************************************************************************)
(* make_earnings_table                                                     *)
(***************************************************************************)
MaxTickers == 3

Tickers == {"AAPL", "MSFT", "NVDA"}
ScriptTickers == {"AAPL", "MSFT"}

\* lines 94-99: the record of ticker t, the i-th of the list
Record(t, r, i) ==
    [idx |-> i,
     ticker |-> t,
     next_earnings |-> r.dt,
     status |-> r.status,
     days_to |-> IF IsNone(r.dt) THEN None ELSE Some(Val(r.dt) - today)]

InsertAt(s, j, x) == SubSeq(s, 1, j - 1) \o <<x>> \o SubSeq(s, j, Len(s))

\* argsort of the positions idxs by key, ascending; positions with equal keys
\* may come out in either order (the default kind is not a stable sort)
RECURSIVE ArgSorts(_, _)
ArgSorts(key, idxs) ==
    IF idxs = <<>> THEN {<<>>}
    ELSE LET x == idxs[Len(idxs)]
             rest == ArgSorts(key, SubSeq(idxs, 1, Len(idxs) - 1))
         IN UNION {{InsertAt(s, j, x) :
                      j \in {j \in 1..(Len(s) + 1) :
                                /\ \A i \in 1..(j - 1) : key[s[i]] <= key[x]
                                /\ \A i \in j..Len(s) : key[x] <= key[s[i]]}} :
                   s \in rest}

Positions(recs) == [i \in 1..Len(recs) |-> i]

\* sort_values with na_position="first"
SortIndexers_na_first(recs) ==
    LET isna(i) == IsNone(recs[i].next_earnings)
        non_nan_idx == SelectSeq(Positions(recs), LAMBDA i : ~isna(i))
        nan_idx == SelectSeq(Positions(recs), isna)
        key == [i \in 1..Len(recs) |-> IF isna(i) THEN 0 ELSE Val(recs[i].next_earnings)]
    IN {nan_idx \o indexer : indexer \in ArgSorts(key, non_nan_idx)}

\* sort_values(by=["next_earnings"], ascending=True, na_position="last"),
\* line 100: the orders of the positions of recs it can produce
SortIndexers(recs) ==
    LET isna(i) == IsNone(recs[i].next_earnings)
        non_nan_idx == SelectSeq(Positions(recs), LAMBDA i : ~isna(i))
        nan_idx == SelectSeq(Positions(recs), isna)
        key == [i \in 1..Len(recs) |-> IF isna(i) THEN 0 ELSE Val(recs[i].next_earnings)]
    IN {indexer \o nan_idx : indexer \in ArgSorts(key, non_nan_idx)}

Take(recs, indexer) == [j \in 1..Len(indexer) |-> recs[indexer[j]]]

\* lines 92-99, one iteration of the loop
AppendRecord ==
    /\ pc = "table_loop"
    /\ Len(records) < Len(tickers)
    /\ LET i == Len(records) + 1
           t == tickers[i]
           r == Resolve(t)
       IN IF r.raised
          THEN /\ pc' = "table_raised"
               /\ UNCHANGED <<records, cache>>
          ELSE /\ records' = Append(records, Record(t, r, i))
               /\ cache' = [cache EXCEPT ![t] = Some(r)]
               /\ pc' = pc
    /\ UNCHANGED <<envVars, result, tickers, e_df, parseVars, scriptVars>>

\* lines 100-101: pd.DataFrame(records).sort_values(...); a frame built from
\* no record has no column next_earnings and sort_values raises KeyError
SortRecords ==
    /\ pc = "table_loop"
    /\ Len(records) = Len(tickers)
    /\ IF records = <<>>
       THEN /\ pc' = "table_raised"
            /\ e_df' = e_df
       ELSE /\ \E indexer \in SortIndexers(records) :
                  e_df' = Some(Take(records, indexer))
            /\ pc' = "table_returned"
    /\ UNCHANGED <<envVars, cache, result, tickers, records, parseVars, scriptVars>>

\* what the provider answers in the batch runs
BatchResponses ==
    {r \in Responses(1) :
        /\ ~r.ed.hasEP
        /\ r.ed.k = "frame" => (Len(r.ed.rows) = 1 /\ r.ed.rows[1].date = MaxDate)
        /\ \/ r.cal.k \in {"raise", "field"} /\ r.ed.k = "none"
           \/ r.cal.k = "none"}

InitTable ==
    /\ today \in Dates
    /\ tickers \in SeqsUpTo(Tickers, MaxTickers)
    /\ provider \in [SeqToSet(tickers) -> BatchResponses]
    /\ cache = [t \in SeqToSet(tickers) |-> None]
    /\ pc = "table_loop"
    /\ records = <<>>
    /\ e_df = None
    /\ result = None
    /\ IdleParse /\ IdleScript

NextTable == AppendRecord \/ SortRecords

SpecTable == InitTable /\ [][NextTable]_vars

(***************************************************************************)
(* The script, lines 145-229.                                              *)
(***************************************************************************)
MaxScriptTickers == 2
MaxFileRows == 2

notional_min == 5000000

\* pd.read_csv(uploaded), line 174: the frame of a readable file
ReadCsv(u) ==
    IF u.k = "csv" THEN Ok(u.frame) ELSE Failure("read_csv error", <<>>)

\* the filter with > in place of >=
FilterNotional_strict(df) ==
    [df EXCEPT !.rows = SelectSeq(df.rows, LAMBDA r : r.notional.v > notional_min)]

\* pos_df[pos_df["notional"] >= notional_min], line 176
FilterNotional(df) ==
    [df EXCEPT !.rows = SelectSeq(df.rows, LAMBDA r : r.notional.v >= notional_min)]

\* the try block with the frame read kept in pos_df before it is normalized
LoadPositions_raw_kept(u) ==
    LET r == ReadCsv(u) IN
    IF r.k # "ok" THEN r
    ELSE LET o == parse_positions_csv(Val(r.df)) IN
         IF o.k # "ok" THEN [o EXCEPT !.df = r.df]
         ELSE Ok([Val(o.df) EXCEPT !.rows =
                    SelectSeq(Val(o.df).rows, LAMBDA x : x.notional.v >= notional_min)])

\* lines 174-176, the statements of the try block that assign pos_df: the
\* outcome, with in df what pos_df was assigned (None when nothing was)
LoadPositions(u) ==
    LET r == ReadCsv(u) IN
    IF r.k # "ok" THEN r
    ELSE LET o == parse_positions_csv(Val(r.df)) IN
         IF o.k # "ok" THEN o ELSE Ok(FilterNotional(Val(o.df)))

\* lines 190-196
EarningsEvent(r) ==
    [ticker |-> r.ticker, event |-> "Earnings", date |-> Val(r.next_earnings),
     size |-> None, details |-> r.status]

\* lines 200-206
PositionEvent(r) ==
    [ticker |-> r.ticker, event |-> r.type, date |-> r.date.d,
     size |-> Some(r.notional.v), details |-> r.source]

MapSeq(F(_), s) == [i \in 1..Len(s) |-> F(s[i])]

\* lines 186-196
EarningsItems(tk, table) ==
    IF tk # <<>>
    THEN MapSeq(EarningsEvent,
                SelectSeq(Val(table), LAMBDA r : ~IsNone(r.next_earnings)))
    ELSE <<>>

\* lines 198-206
PositionItems(p) ==
    IF p # None /\ Val(p).rows # <<>>
    THEN MapSeq(PositionEvent, Val(p).rows)
    ELSE <<>>

\* lines 145-164, up to the call of make_earnings_table
EarningsSection ==
    /\ pc = "earnings"
    /\ IF tickers # <<>>
       THEN /\ pc' = "table_loop"
            /\ shown' = shown
       ELSE /\ pc' = "positions"
            /\ shown' = Append(shown, "info: enter tickers")
    /\ UNCHANGED <<envVars, cache, result, tableVars, parseVars,
                   uploaded, pos_df, timeline_items>>

\* lines 147-162, after make_earnings_table returned
ShowEarnings ==
    /\ pc = "table_returned"
    /\ shown' = Append(shown, "dataframe: earnings")
    /\ pc' = "positions"
    /\ UNCHANGED <<envVars, cache, result, tableVars, parseVars,
                   uploaded, pos_df, timeline_items>>

\* lines 170-181
PositionsSection ==
    /\ pc = "positions"
    /\ IF uploaded.k = "none"
       THEN /\ shown' = Append(shown, "caption: upload a CSV")
            /\ pos_df' = pos_df
       ELSE LET o == LoadPositions(uploaded) IN
            /\ pos_df' = IF o.df = None THEN pos_df ELSE o.df
            /\ shown' = Append(shown, IF o.k = "ok" THEN "dataframe: positions"
                                      ELSE "error: Error parsing CSV")
    /\ pc' = "timeline"
    /\ UNCHANGED <<envVars, cache, result, tableVars, parseVars,
                   uploaded, timeline_items>>

\* lines 183-229
TimelineSection ==
    /\ pc = "timeline"
    /\ LET items == EarningsItems(tickers, e_df) \o PositionItems(pos_df) IN
       /\ timeline_items' = items
       /\ shown' = Append(shown, IF items # <<>> THEN "chart: events"
                                 ELSE "caption: no events")
    /\ pc' = "done"
    /\ UNCHANGED <<envVars, cache, result, tableVars, parseVars,
                   uploaded, pos_df>>

\* what the provider answers in the script runs
ScriptResponses ==
    {r \in BatchResponses :
        /\ r.cal.k = "field" => r.cal.dt \in {None, Some(1)}
        /\ r.cal.k = "none" => r.ed.k = "frame"}

ScriptRowPool ==
    {r \in [date : {DateCell("iso", 1), DateCell("abc", 0)},
            ticker : {" aapl "},
            notional : {NumCell("num", 4999999), NumCell("num", 5000000),
                        NumCell("num", 10000000), NaNNum},
            type : {"block_trade"}, source : {"manual"},
            notes : {"dark pool print"}, extra : {"x"}] :
        r.date.k = "abc" => r.notional.v = 5000000}

\* the dtype read_csv gives the ticker column
InferredDtype(rows) ==
    IF rows # <<>> /\ \A i \in 1..Len(rows) : rows[i].ticker = NaN
    THEN "float64" ELSE "object"

Uploads ==
    {[k |-> x, frame |-> MkFrame({}, "object", <<>>)] : x \in {"none", "unreadable"}}
    \cup {[k |-> "csv", frame |-> MkFrame(SeqToSet(required), InferredDtype(cs), cs)] :
            cs \in SeqsUpTo(ScriptRowPool, MaxFileRows)}
    \cup {[k |-> "csv", frame |-> MkFrame(c, InferredDtype(cs), cs)] :
            c \in {SeqToSet(required) \cup {"notes"}, SeqToSet(required) \ {"ticker"}},
            cs \in SeqsUpTo(ScriptRowPool, 1)}

Init ==
    /\ today \in Dates
    /\ tickers \in SeqsUpTo(ScriptTickers, MaxScriptTickers)
    /\ provider \in [SeqToSet(tickers) -> ScriptResponses]
    /\ cache = [t \in SeqToSet(tickers) |-> None]
    /\ uploaded \in Uploads
    /\ pc = "earnings"
    /\ records = <<>>
    /\ e_df = None
    /\ pos_df = None
    /\ shown = <<>>
    /\ timeline_items = <<>>
    /\ result = None
    /\ IdleParse

Next ==
    \/ EarningsSection
    \/ AppendRecord
    \/ SortRecords
    \/ ShowEarnings
    \/ PositionsSection
    \/ TimelineSection

Spec == Init /\ [][Next]_vars

(***************************************************************************)
(* The claims.                                                             *)
(***************************************************************************)
\* what the provider holds for the directly resolved ticker
Resp == provider["AAPL"]

\* the calendar view yields a usable date
CalendarYields(resp) == resp.cal.k = "field" /\ ~IsNone(resp.cal.dt)

\* the schedule view yields a usable date: a row dated on or after day t
ScheduleYields(resp, t) ==
    /\ resp.ed.k = "frame"
    /\ \E i \in 1..Len(resp.ed.rows) : resp.ed.rows[i].date >= t

\* C1: the resolver is an ordered fallback.  When no provider access raises
\* and the calendar yields no usable date, a schedule with a row dated on or
\* after today makes the result one of those schedule dates; and
\* (None, "unknown") is returned only when neither view yields a usable date.
C1_OrderedFallback ==
    pc = "fetch_returned" =>
        LET r == Val(result) IN
        /\ (/\ Resp.cal.k # "raise"
            /\ Resp.ed.k # "raise"
            /\ ~CalendarYields(Resp)
            /\ ScheduleYields(Resp, today))
           => /\ ~IsNone(r.dt)
              /\ \E i \in 1..Len(Resp.ed.rows) :
                    /\ Resp.ed.rows[i].date >= today
                    /\ Resp.ed.rows[i].date = Val(r.dt)
        /\ (IsNone(r.dt) /\ r.status = "unknown")
           => (~CalendarYields(Resp) /\ ~ScheduleYields(Resp, today))

\* the call fell back to the schedule view and found a row there
FellBack ==
    /\ pc = "fetch_returned"
    /\ Resp.cal.k \in {"none", "empty", "nofield"}
    /\ ScheduleYields(Resp, today)

\* C2: when the resolver falls back to the schedule, it returns the earliest
\* schedule date on or after today, whatever the order of the rows, with the
\* status of a row of that date (its EP flag if the frame has one, else
\* "estimated").
C2_EarliestScheduleDate ==
    FellBack =>
        LET r == Val(result)
            rows == Resp.ed.rows
        IN /\ ~IsNone(r.dt)
           /\ \E i \in 1..Len(rows) :
                 /\ rows[i].date >= today
                 /\ rows[i].date = Val(r.dt)
                 /\ r.status = PyStr(IF Resp.ed.hasEP THEN rows[i].EP ELSE "estimated")
                 /\ \A j \in 1..Len(rows) :
                       rows[j].date >= today => rows[i].date <= rows[j].date

\* a provider access made for this answer raises
QueryRaises(resp) ==
    \/ resp.cal.k = "raise"
    \/ resp.cal.k \in {"none", "empty", "nofield"} /\ resp.ed.k = "raise"

\* the row make_earnings_table(<<t>>) gives ticker t when it is alone
SoloRow(t) == Record(t, fetch_next_earnings_date(provider[t], today), 1)

Count(s, x) == Cardinality({i \in 1..Len(s) : s[i] = x})

\* C4: for every ticker list, the empty one and those with duplicates
\* included, make_earnings_table returns (does not raise) a table with one
\* row per input ticker.
C4_OneRowPerTicker ==
    pc # "table_loop" =>
        /\ pc = "table_returned"
        /\ e_df # None
        /\ Len(Val(e_df)) = Len(tickers)
        /\ \A t \in Tickers :
              Count(MapSeq(LAMBDA r : r.ticker, Val(e_df)), t) = Count(tickers, t)

\* C5: in the returned table a row with an earlier date comes before a row
\* with a later one, every null-date row comes after every dated row, and
\* the null-date rows keep their input order.
C5_SortedNullsLast ==
    pc = "table_returned" =>
        LET T == Val(e_df) IN
        \A i, j \in 1..Len(T) :
            i < j =>
                LET a == T[i].next_earnings
                    b == T[j].next_earnings
                IN /\ (~IsNone(a) /\ ~IsNone(b)) => Val(a) <= Val(b)
                   /\ IsNone(a) => IsNone(b)
                   /\ (IsNone(a) /\ IsNone(b)) => T[i].idx < T[j].idx

\* a table came back for an input with a null-date record ahead of two
\* dated records that were out of order
C5_Witness ==
    /\ pc = "table_returned"
    /\ Len(records) >= 3
    /\ IsNone(records[1].next_earnings)
    /\ ~IsNone(records[2].next_earnings)
    /\ ~IsNone(records[3].next_earnings)
    /\ Val(records[2].next_earnings) > Val(records[3].next_earnings)

\* the three fields of a raw row parse
DateParses(c) == c.k \in {"iso", "text", "date"}
TickerParses(c) == c # NaN
NotionalParses(c) == c.k \in {"num", "numstr"}
RowParses(r) ==
    DateParses(r.date) /\ TickerParses(r.ticker) /\ NotionalParses(r.notional)

IdxOf(rows) == MapSeq(LAMBDA r : r.idx, rows)

\* C6: for a frame with all required columns the normalizer does not raise,
\* and returns exactly the rows whose date, ticker and notional parse, in
\* their input order.
C6_BadRowsDropped ==
    (out1 # None /\ Missing(Val(raw)) = <<>>) =>
        /\ Val(out1).k = "ok"
        /\ IdxOf(Val(Val(out1).df).rows) = IdxOf(SelectSeq(Val(raw).rows, RowParses))

SchemaError == "ValueError: Missing required columns"

\* C7: the normalizer fails with the schema error exactly when a required
\* column is absent, whatever the rows hold and whatever other columns are
\* there, and the error lists exactly the absent required columns.
C7_SchemaError ==
    out1 # None =>
        LET absent == {c \in {"date", "ticker", "notional", "type", "source"} :
                          c \notin Val(raw).columns}
            o == Val(out1)
        IN /\ o.k = SchemaError <=> absent # {}
           /\ o.k = SchemaError =>
                 /\ SeqToSet(o.missing) = absent
                 /\ Len(o.missing) = Cardinality(absent)
           /\ o.k # SchemaError => o.missing = <<>>

\* the schema error named just "ticker" for a frame that has a notes column,
\* an extra column and a row whose date does not parse
C7_Witness ==
    /\ out1 # None
    /\ Val(out1).k = SchemaError
    /\ Val(out1).missing = <<"ticker">>
    /\ {"notes", "extra"} \subseteq Val(raw).columns
    /\ Len(Val(raw).rows) = 1
    /\ Val(raw).rows[1].date.k = "abc"

\* the normalized rows of the uploaded file, <<>> when it gives none
NormalizedRows ==
    IF uploaded.k = "csv" /\ parse_positions_csv(uploaded.frame).k = "ok"
    THEN Val(parse_positions_csv(uploaded.frame).df).rows
    ELSE <<>>

DatedRows == IF e_df = None THEN <<>>
             ELSE SelectSeq(Val(e_df), LAMBDA r : ~IsNone(r.next_earnings))

LargeRows == SelectSeq(NormalizedRows, LAMBDA r : r.notional.v >= 5000000)

\* C8: the timeline is one "Earnings" event per dated row of the earnings
\* table, in table order, followed by one event per normalized position
\* with notional >= 5,000,000, in normalizer order, and nothing else.
C8_TimelineExact ==
    pc = "done" =>
        /\ Len(timeline_items) = Len(DatedRows) + Len(LargeRows)
        /\ \A i \in 1..Len(DatedRows) :
              timeline_items[i] =
                 [ticker |-> DatedRows[i].ticker, event |-> "Earnings",
                  date |-> Val(DatedRows[i].next_earnings), size |-> None,
                  details |-> DatedRows[i].status]
        /\ \A i \in 1..Len(LargeRows) :
              timeline_items[Len(DatedRows) + i] =
                 [ticker |-> LargeRows[i].ticker, event |-> LargeRows[i].type,
                  date |-> LargeRows[i].date.d,
                  size |-> Some(LargeRows[i].notional.v),
                  details |-> LargeRows[i].source]

\* a run ended with an earnings event, a position of 4,999,999 left out and
\* a position of exactly 5,000,000 in the timeline
C8_Witness ==
    /\ pc = "done"
    /\ Len(DatedRows) >= 1
    /\ Len(NormalizedRows) = 2
    /\ NormalizedRows[1].notional.v = 4999999
    /\ NormalizedRows[2].notional.v = 5000000
    /\ Len(timeline_items) = Len(DatedRows) + 1

\* reading or normalizing the uploaded file fails
CsvFails ==
    \/ uploaded.k = "unreadable"
    \/ uploaded.k = "csv" /\ parse_positions_csv(uploaded.frame).k # "ok"

InShown(m) == \E i \in 1..Len(shown) : shown[i] = m

\* C9: when reading or normalizing the uploaded file fails, the error is
\* shown, no position is kept, the earnings table of the given tickers has
\* been produced, the timeline section runs, and the timeline holds the
\* earnings events and no position event.
C9_BadCsvContained ==
    (CsvFails /\ pc \in {"timeline", "done"}) =>
        /\ InShown("error: Error parsing CSV")
        /\ ~InShown("dataframe: positions")
        /\ pos_df = None
        /\ tickers # <<>> => (e_df # None /\ InShown("dataframe: earnings"))
        /\ pc = "timeline" => ENABLED TimelineSection
        /\ pc = "done" =>
              /\ Len(timeline_items) = Len(DatedRows)
              /\ \A i \in 1..Len(timeline_items) :
                    /\ timeline_items[i].event = "Earnings"
                    /\ timeline_items[i].ticker = DatedRows[i].ticker
                    /\ timeline_items[i].date = Val(DatedRows[i].next_earnings)

\* a run ended whose file lacked the ticker column, with an earnings event
\* in its timeline
C9_Witness ==
    /\ pc = "done"
    /\ uploaded.k = "csv"
    /\ "ticker" \notin uploaded.frame.columns
    /\ uploaded.frame.rows # <<>>
    /\ Len(timeline_items) >= 1

\* C10: normalizing what the normalizer returned gives it back: the same
\* rows, the same cells, the same order.
C10_Idempotent ==
    /\ pc # "parse_again_raised"
    /\ out2 # None => (Val(out2).k = "ok" /\ Val(out2).df = Val(out1).df)

\* the second pass ran on an output that kept a row whose date, ticker and
\* notional the first pass had rewritten, after another row was dropped
C10_Witness ==
    /\ pc = "parsed_twice"
    /\ Len(Val(raw).rows) = 2
    /\ Len(Val(Val(out1).df).rows) = 1
    /\ \E i \in 1..2 :
          /\ Val(raw).rows[i].date.k = "text"
          /\ Val(raw).rows[i].ticker = " aapl "
          /\ Val(raw).rows[i].notional.k = "numstr"
          /\ Val(raw).rows[i].type = NaN
          /\ Val(Val(out1).df).rows[1].idx = i

====
